---- MODULE Spec2Model ----
(***************************************************************************)
(* A model of the horizontal bar chart visual (src/src/barChart.ts):       *)
(* the view-model builder visualTransform, the layout step of              *)
(* BarChart.update, the enter/update/exit rendering of the rows and the    *)
(* selection handlers that set the rows' opacity.                          *)
(***************************************************************************)
EXTENDS Integers, Sequences, FiniteSets, TLC

VARIABLES
    options,        \* the VisualUpdateOptions of the latest update call
    transform,      \* outcome of the latest visualTransform call
    status,         \* how the latest update call ended
    settings,       \* this.IBarChartSettings
    layout,         \* geometry computed by the latest update call
    dom,            \* the g.bar elements under barContainer, by position
    handler,        \* selections captured by the registered click handlers
    selection,      \* the selection ids held by the host selection manager
    pending,        \* select() promises that have not settled yet
    lastOp,         \* the operation that ran last
    clampPadding,   \* whether the d3-scale of the build clamps paddingOuter
    tooltip,        \* the tooltip service wrapper, its timers and the clock
    surface         \* the sizes of the scroll div, the svg and rect.rect-container

vars == <<options, transform, status, settings, layout, dom, handler,
          selection, pending, lastOp, clampPadding, tooltip, surface>>

(***************************************************************************)
(* Bounds of the model.                                                    *)
(***************************************************************************)
MaxRows == 3          \* longest value/category column given to visualTransform
MaxBars == 2          \* most rows of a data view given to update
MaxPending == 1       \* most select() promises in flight
MaxTimers == 4        \* most timer ids the browser hands out
MaxTime == 2000       \* the clock stops here, in milliseconds

(***************************************************************************)
(* JavaScript values.  A number n is Num(n); the other values the code can *)
(* meet are undefined (a read past the end of an array, a missing          *)
(* property), null, -Infinity (Math.max of nothing) and NaN.               *)
(***************************************************************************)
Undefined == [k |-> "undefined"]
Null == [k |-> "null"]
NegInfinity == [k |-> "-Infinity"]
NaN == [k |-> "NaN"]
Num(n) == [k |-> "number", n |-> n]
Str(t) == [k |-> "string", s |-> t]
IsNum(v) == v.k = "number"

\* An optional property: None is a missing (undefined) one.
None == <<>>
Some(x) == <<x>>
Truthy(opt) == opt # None
Get(opt) == opt[1]

\* arr[i] for a JS array of numbers, i counted from 0.
At(arr, i) == IF i + 1 \in DOMAIN arr THEN Num(arr[i + 1]) ELSE Undefined

\* arr[i] + "" for a JS array of strings, i counted from 0.
StrAt(arr, i) == IF i + 1 \in DOMAIN arr THEN arr[i + 1] ELSE "undefined"

\* ToNumber as the relational operators and Math.max apply it.
ToNumber(v) == IF v.k = "undefined" THEN NaN ELSE IF v.k = "null" THEN Num(0) ELSE v

\* a <= b as JavaScript evaluates it.
JsLessEq(a, b) ==
    LET x == ToNumber(a)
        y == ToNumber(b)
    IN  IF x.k = "NaN" \/ y.k = "NaN" THEN FALSE
        ELSE IF x.k = "-Infinity" THEN TRUE
        ELSE IF y.k = "-Infinity" THEN FALSE
        ELSE x.n <= y.n

SetMax(S) == CHOOSE m \in S : \A x \in S : x <= m

\* Math.max.apply(Math, arr) for an array of numbers.
MathMax(arr) ==
    IF Len(arr) = 0 THEN NegInfinity
    ELSE Num(SetMax({arr[i] : i \in DOMAIN arr}))

Max2(a, b) == IF a >= b THEN a ELSE b


(***************************************************************************)
(* Settings.  metadata.objects holds what the user has set in the format   *)
(* pane: a record of option groups, each a record of the properties set.   *)
(***************************************************************************)
NoObjects == [g \in {} |-> {}]

\* getValue(objects, objectName, propertyName, defaultValue): the property
\* when the host supplies it, the default otherwise.
getValue(objects, objectName, propertyName, defaultValue) ==
    IF objectName \in DOMAIN objects /\ propertyName \in DOMAIN objects[objectName]
    THEN objects[objectName][propertyName]
    ELSE defaultValue

defaultSettings ==
    [alignBarLabels |-> [show |-> FALSE],
     barHeight      |-> [height |-> 30, show |-> TRUE],
     barShape       |-> [headColor |-> "#FEA19E", labelPosition |-> "Top",
                         shape |-> "Bar"],
     clearFilters   |-> [show |-> FALSE],
     experimental   |-> [blendMode |-> "difference", show |-> FALSE],
     fontParams     |-> [fontSize |-> 11, show |-> FALSE],
     generalView    |-> [barHeight |-> 30, barsColor |-> "turquoise",
                         minHeight |-> 250, opacity |-> 100,
                         overlapColor |-> "#FEA19E", textColor |-> "#000"],
     showBarLabels  |-> [highlightColor |-> "#000", show |-> TRUE,
                         textColor |-> "#FFF"],
     units          |-> [decimalPlaces |-> Null, tooltipUnits |-> 0]]

\* The settings object visualTransform builds from metadata.objects.
IBarChartSettingsOf(objects) ==
    [g \in DOMAIN defaultSettings |->
        [p \in DOMAIN defaultSettings[g] |->
            getValue(objects, g, p, defaultSettings[g][p])]]

\* settings: <IBarChartSettings> {} of the empty view model.
EmptySettings == [g \in {} |-> {}]

\* settings.<group> is undefined.
Missing(s, group) == group \notin DOMAIN s

(***************************************************************************)
(* Exact arithmetic on fractions <<n, d>>, d > 0, for the layout step,     *)
(* which divides the viewport height among the rows.                       *)
(***************************************************************************)
RECURSIVE GCD(_, _)
GCD(a, b) == IF b = 0 THEN a ELSE GCD(b, a % b)

Abs(n) == IF n < 0 THEN -n ELSE n

Reduced(n, d, g) == IF d < 0 THEN <<(-n) \div g, (-d) \div g>> ELSE <<n \div g, d \div g>>
Frac(n, d) == Reduced(n, d, GCD(Abs(n), Abs(d)))

Int2F(n) == <<n, 1>>
FAdd(a, b) == Frac(a[1] * b[2] + b[1] * a[2], a[2] * b[2])
FSub(a, b) == Frac(a[1] * b[2] - b[1] * a[2], a[2] * b[2])
FMul(a, b) == Frac(a[1] * b[1], a[2] * b[2])
FDiv(a, b) == Frac(a[1] * b[2], a[2] * b[1])
FLess(a, b) == a[1] * b[2] < b[1] * a[2]
FLessEq(a, b) == a[1] * b[2] <= b[1] * a[2]
FMax(a, b) == IF FLess(a, b) THEN b ELSE a
FMin(a, b) == IF FLess(a, b) THEN a ELSE b
\* Math.floor and Math.round (half up).
FFloor(a) == a[1] \div a[2]
FRound(a) == (2 * a[1] + a[2]) \div (2 * a[2])

(***************************************************************************)
(* Text of the labels.  The host's value formatter prints a number in      *)
(* decimal and a string as it is; the text measurement service returns a   *)
(* width proportional to the number of characters and to the font size.    *)
(***************************************************************************)
CharWidth == Frac(1, 2)

\* valueFormatter.format(value)
format(v) ==
    IF v.k = "number" THEN ToString(v.n)
    ELSE IF v.k = "string" THEN v.s
    ELSE ""

\* textMeasurementService.measureSvgTextWidth({fontSize, text})
measureSvgTextWidth(fontSize, text) ==
    FMul(FMul(Int2F(Len(text)), fontSize), CharWidth)

(***************************************************************************)
(* The view-model builder.                                                 *)
(***************************************************************************)
EmptyViewModel ==
    [dataMax |-> Num(0), dataPoints |-> <<>>, settings |-> EmptySettings,
     widthMax |-> 0]

Return(vm) == [threw |-> FALSE, vm |-> vm]
Throw(line) == [threw |-> TRUE, line |-> line]

\* getOverlapIndex(metadata): the index of the last metadata column that has
\* the role overlapValues, -1 when there is none.
getOverlapIndex(metadata) ==
    LET hits == {c \in DOMAIN metadata.columns :
                    "overlapValues" \in metadata.columns[c].roles}
    IN  IF hits = {} THEN -1 ELSE metadata.columns[SetMax(hits)].index

\* getDataValueForOverlapValue(values, overlapIndex): the values of the first
\* value column whose source has that index, [] when there is none.
getDataValueForOverlapValue(values, overlapIndex) ==
    LET hits == {c \in DOMAIN values : values[c].source.index = overlapIndex}
    IN  IF hits = {} THEN <<>>
        ELSE values[CHOOSE c \in hits : \A d \in hits : c <= d].values

\* host.createSelectionIdBuilder().withCategory(category, i).createSelectionId():
\* an opaque token for row i of the category column.
createSelectionId(category, i) == [key |-> StrAt(category.values, i)]

\* Faulty variants of the builder, against which the properties below are
\* tried: a loop over the category rows only, a data point read from the far
\* end of the columns, and a dataMax that ignores the overlap series, keeps
\* the lesser operand, or ignores the primary series.
CategoryLength(category, dataValue) == Len(category.values)

DataPointFromEnd(category, dataValue, overlapDataValue, i) ==
    [category     |-> StrAt(category.values, Len(category.values) - 1 - i),
     overlapValue |-> IF Len(overlapDataValue) > 0
                      THEN At(overlapDataValue, Len(category.values) - 1 - i)
                      ELSE Null,
     selected     |-> FALSE,
     selectionId  |-> createSelectionId(category, Len(category.values) - 1 - i),
     value        |-> At(dataValue.values, Len(category.values) - 1 - i)]

DataMaxPrimaryOnly(maxLocal, overlapDataValueMax) == maxLocal

DataMaxLesser(maxLocal, overlapDataValueMax) ==
    IF JsLessEq(maxLocal, overlapDataValueMax)
    THEN maxLocal ELSE overlapDataValueMax

DataMaxOverlapOnly(maxLocal, overlapDataValueMax) == overlapDataValueMax

\* The number of passes of the loop that builds the data points.
LoopLength(category, dataValue) ==
    Max2(Len(category.values), Len(dataValue.values))

\* The data point pushed by pass i of the loop (i counted from 0).
DataPointAt(category, dataValue, overlapDataValue, i) ==
    [category     |-> StrAt(category.values, i),
     overlapValue |-> IF Len(overlapDataValue) > 0
                      THEN At(overlapDataValue, i) ELSE Null,
     selected     |-> FALSE,
     selectionId  |-> createSelectionId(category, i),
     value        |-> At(dataValue.values, i)]

\* Lines 336-353: one tooltip entry per value column after the first, its
\* value formatted.
TooltipEntries(tooltipData, i) ==
    [j \in DOMAIN tooltipData |->
        [displayName |-> tooltipData[j].source.displayName,
         value       |-> Str(format(At(tooltipData[j].values, i)))]]

\* Lines 365-389: the fields of the data point that hold text.  currTextWidth
\* is the width of the formatted category at fontParams.fontSize.
DataPointText(category, dataValue, tooltipData, s, i) ==
    [currTextWidth  |-> measureSvgTextWidth(
                            Int2F(s.fontParams.fontSize),
                            format(IF i + 1 \in DOMAIN category.values
                                   THEN Str(category.values[i + 1])
                                   ELSE Undefined)),
     formattedValue |-> format(At(dataValue.values, i)),
     tooltip        |-> TooltipEntries(tooltipData, i),
     width          |-> Null]

\* dataMax = maxLocal <= overlapDataValueMax ? overlapDataValueMax : maxLocal
DataMaxOf(maxLocal, overlapDataValueMax) ==
    IF JsLessEq(maxLocal, overlapDataValueMax)
    THEN overlapDataValueMax ELSE maxLocal

\* The part of visualTransform after the validation gate.
BuildViewModel(dv) ==
    LET categorical == Get(dv.categorical)
        category == Get(categorical.categories)[1]
        dataValue == Get(categorical.values)[1]
        metadata == dv.metadata
        overlapIndex == getOverlapIndex(metadata)
        overlapDataValue ==
            IF overlapIndex # -1
            THEN getDataValueForOverlapValue(Get(categorical.values), overlapIndex)
            ELSE <<>>
        len == LoopLength(category, dataValue)
        tooltipData == SubSeq(Get(categorical.values), 2,
                              Len(Get(categorical.values)))
        s == IBarChartSettingsOf(metadata.objects)
    IN  [dataMax    |-> DataMaxOf(dataValue.maxLocal, MathMax(overlapDataValue)),
         dataPoints |-> [i \in 1..len |->
                            DataPointAt(category, dataValue, overlapDataValue, i - 1)
                            @@ DataPointText(category, dataValue, tooltipData,
                                             s, i - 1)],
         settings   |-> s,
         widthMax   |-> 0]

\* The validation gate: the empty view model when a part of the data view is
\* missing.  categories[0].source throws on an empty categories array, and an
\* empty values array passes the gate and throws at dataValue.values.
visualTransform(opts) ==
    IF ~Truthy(opts.dataViews) \/ Len(Get(opts.dataViews)) = 0
    THEN Return(EmptyViewModel)
    ELSE LET dv == Get(opts.dataViews)[1] IN
        IF ~Truthy(dv.categorical) THEN Return(EmptyViewModel)
        ELSE IF ~Truthy(Get(dv.categorical).categories) THEN Return(EmptyViewModel)
        ELSE IF Len(Get(Get(dv.categorical).categories)) = 0 THEN Throw(225)
        ELSE IF ~Truthy(Get(Get(dv.categorical).categories)[1].source)
        THEN Return(EmptyViewModel)
        ELSE IF ~Truthy(Get(dv.categorical).values) THEN Return(EmptyViewModel)
        ELSE IF Len(Get(Get(dv.categorical).values)) = 0 THEN Throw(323)
        ELSE Return(BuildViewModel(dv))

(***************************************************************************)
(* Data views the host can hand over.  A column of a categorical data view *)
(* carries its metadata column as source; the host declares maxLocal, the  *)
(* greatest value of a value column.                                       *)
(***************************************************************************)
CatNames == {"A", "B", "C"}
PrimaryValues == {10, 20, 30}
OverlapValues == {5, 15, 25}

SeqsUpTo(S, n) == UNION {[1..k -> S] : k \in 0..n}
InjectiveSeqsUpTo(S, n) ==
    {s \in SeqsUpTo(S, n) : \A i, j \in DOMAIN s : s[i] = s[j] => i = j}

MetadataColumn(index, displayName, roles) ==
    [displayName |-> displayName, index |-> index, roles |-> roles]

CategoryColumn(vals) ==
    [source |-> Some(MetadataColumn(0, "Category", {"category"})), values |-> vals]

ValueColumn(source, vals) ==
    [maxLocal |-> IF Len(vals) = 0 THEN Undefined
                  ELSE Num(SetMax({vals[i] : i \in DOMAIN vals})),
     source   |-> source,
     values   |-> vals]

PrimarySource == MetadataColumn(1, "Value", {"measure"})
TooltipSource == MetadataColumn(2, "Detail", {"tooltip"})
OverlapSource(index) == MetadataColumn(index, "Overlap", {"overlapValues"})

DataView(categories, values, columns, objects) ==
    [categorical |-> Some([categories |-> categories, values |-> values]),
     metadata    |-> [columns |-> columns, objects |-> objects]]

\* One category column and the primary value column.
PlainView(cats, prim, objects) ==
    DataView(Some(<<CategoryColumn(cats)>>),
             Some(<<ValueColumn(PrimarySource, prim)>>),
             <<MetadataColumn(0, "Category", {"category"}), PrimarySource>>,
             objects)

\* The same with a column in the overlapValues role.
OverlapView(cats, prim, over, objects) ==
    DataView(Some(<<CategoryColumn(cats)>>),
             Some(<<ValueColumn(PrimarySource, prim),
                    ValueColumn(OverlapSource(2), over)>>),
             <<MetadataColumn(0, "Category", {"category"}), PrimarySource,
               OverlapSource(2)>>,
             objects)

\* The same with a tooltip measure between the primary and the overlap column.
TooltipOverlapView(cats, prim, over, objects) ==
    DataView(Some(<<CategoryColumn(cats)>>),
             Some(<<ValueColumn(PrimarySource, prim),
                    ValueColumn(TooltipSource, prim),
                    ValueColumn(OverlapSource(3), over)>>),
             <<MetadataColumn(0, "Category", {"category"}), PrimarySource,
               TooltipSource, OverlapSource(3)>>,
             objects)

Viewport(w, h) == [height |-> h, width |-> w]
Options(dataViews, viewport) == [dataViews |-> dataViews, viewport |-> viewport]

\* Data views that lack a part the validation gate asks for.
MalformedDataViews ==
    LET cat == CategoryColumn(<<"A">>)
        val == ValueColumn(PrimarySource, <<10>>)
        md == [columns |-> <<>>, objects |-> NoObjects]
    IN  [noDataViews     |-> None,
         noDataView      |-> Some(<<>>),
         noCategorical   |-> Some(<<[categorical |-> None, metadata |-> md]>>),
         noCategories    |-> Some(<<DataView(None, Some(<<val>>), <<>>, NoObjects)>>),
         emptyCategories |-> Some(<<DataView(Some(<<>>), Some(<<val>>), <<>>, NoObjects)>>),
         noSource        |-> Some(<<DataView(Some(<<[source |-> None, values |-> <<"A">>]>>),
                                             Some(<<val>>), <<>>, NoObjects)>>),
         noValues        |-> Some(<<DataView(Some(<<cat>>), None, <<>>, NoObjects)>>),
         emptyValues     |-> Some(<<DataView(Some(<<cat>>), Some(<<>>), <<>>, NoObjects)>>)]

MalformedKinds == DOMAIN MalformedDataViews

\* The shapes of a data view that passes the gate.
ViewKinds == {"plain", "overlap", "tooltipOverlap"}

WellFormedView(kind, cats, prim, over, objects) ==
    IF kind = "plain" THEN PlainView(cats, prim, objects)
    ELSE IF kind = "overlap" THEN OverlapView(cats, prim, over, objects)
    ELSE TooltipOverlapView(cats, prim, over, objects)

(***************************************************************************)
(* BarChart.Config and the layout step of update.                          *)
(***************************************************************************)
barPadding == Frac(15, 100)
xScalePadding == Frac(15, 100)
outerPaddingScale == Frac(1, 2)
maxHeightScale == 3
fontScaleFactor == 3
xScaledMinDefault == 30
rangeStart == 5

\* xScaledMin: settings.barHeight.height when settings.barHeight.show, else
\* BarChart.Config.xScaledMin.
XScaledMinOf(s) ==
    IF ~Missing(s, "barHeight") /\ s.barHeight.show
    THEN s.barHeight.height ELSE xScaledMinDefault

\* The outer padding of the branch calcX > xScaledMax: the slot is clamped to
\* xScaledMax, or to xScaledMin when xScaledMax is below it; a padding that
\* is not positive is dropped.
ClampedOuterPadding(height, n, clampTo, outerPadding, tempOuterPadding) ==
    IF FLess(Int2F(0), tempOuterPadding) THEN tempOuterPadding ELSE outerPadding

TempOuterPadding(height, n, clampTo) ==
    FDiv(FSub(height, FMul(FAdd(FSub(Int2F(0), xScalePadding), Int2F(n)), clampTo)),
         FMul(Int2F(2), clampTo))

\* Lines 556-576: the branch on calcX, xScaledMax and xScaledMin.
FitBranch(height, n, xScaledMax, xScaledMin, outerPadding, calcX, calcHeight) ==
    IF FLess(xScaledMax, calcX)
    THEN [calcX |-> calcX, calcHeight |-> calcHeight, grown |-> FALSE,
          height |-> height,
          outerPadding |->
              IF FLessEq(xScaledMin, xScaledMax)
              THEN ClampedOuterPadding(height, n, xScaledMax, outerPadding,
                                       TempOuterPadding(height, n, xScaledMax))
              ELSE ClampedOuterPadding(height, n, xScaledMin, outerPadding,
                                       TempOuterPadding(height, n, xScaledMin))]
    ELSE IF FLess(calcX, xScaledMin) /\ FLess(height, calcHeight)
    THEN [calcX |-> calcX, calcHeight |-> calcHeight, grown |-> TRUE,
          height |-> calcHeight, outerPadding |-> outerPadding]
    ELSE [calcX |-> calcX, calcHeight |-> calcHeight, grown |-> FALSE,
          height |-> height, outerPadding |-> outerPadding]

\* Lines 535-576: the outer padding update hands to the band scale, and the
\* height it sets on the svg, for viewport height h, n data points and floor
\* m.  outerPadding starts at -0.1; calcX is the slot of an even distribution,
\* calcHeight the height all rows need at the floor.
FitRows(h, n, m) ==
    FitBranch(Int2F(h), n,
              FDiv(Int2F(h), Int2F(maxHeightScale)),
              Int2F(m),
              Frac(-1, 10),
              FDiv(Int2F(h),
                   FAdd(FSub(FMul(Int2F(2), outerPaddingScale), xScalePadding),
                        Int2F(n))),
              FMul(FAdd(FSub(FMul(Int2F(-2), Frac(-1, 10)), xScalePadding),
                        Int2F(n)),
                   Int2F(m)))

\* band.paddingOuter(x): d3-scale 1.x keeps x within [0, 1], later versions
\* take it as given.
PaddingOuter(x, clamp) ==
    IF clamp THEN FMax(Int2F(0), FMin(Int2F(1), x)) ELSE x

\* The step and the bandwidth of a band scale over the range [start, stop]
\* with the given number of slots: step = floor(range / slots), bandwidth =
\* round(step * (1 - paddingInner)).
BandOf(step) ==
    [step |-> step,
     bandwidth |-> FRound(FMul(Int2F(step), FSub(Int2F(1), barPadding)))]

\* scaleBand().domain(d).rangeRound([5, height]).padding(0.15).paddingOuter(o):
\* step is the slot of one row (band plus inner padding), bandwidth the band.
BandScale(count, height, outer, clamp) ==
    BandOf(FFloor(FDiv(FSub(FMax(Int2F(rangeStart), height),
                            FMin(Int2F(rangeStart), height)),
                       FMax(Int2F(1),
                            FAdd(FSub(Int2F(count), barPadding),
                                 FMul(Int2F(2), PaddingOuter(outer, clamp)))))))

\* The distinct categories: the domain of the band scale.
BandDomain(dataPoints) == {dataPoints[i].category : i \in DOMAIN dataPoints}

\* A font size that is capped whether or not a fixed size is configured.
FontSizeAlwaysCapped(s, bandwidth) ==
    FMax(Frac(85, 10),
         FMin(Int2F(40),
              IF ~Missing(s, "fontParams") /\ s.fontParams.show
              THEN Int2F(s.fontParams.fontSize)
              ELSE Frac(bandwidth, fontScaleFactor)))

\* Lines 594-602: fontSizeToUse is fontParams.fontSize when fontParams.show,
\* else bandwidth / fontScaleFactor, raised to 8.5 and lowered to 40 when
\* fontParams.show is false.
fontSizeToUse(s, bandwidth) ==
    IF ~Missing(s, "fontParams") /\ s.fontParams.show
    THEN Int2F(s.fontParams.fontSize)
    ELSE IF FLess(Frac(bandwidth, fontScaleFactor), Frac(85, 10)) THEN Frac(85, 10)
    ELSE IF FLess(Int2F(40), Frac(bandwidth, fontScaleFactor)) THEN Int2F(40)
    ELSE Frac(bandwidth, fontScaleFactor)

\* a > b of JavaScript: false when either side is NaN.
JsGreater(a, b) == JsLessEq(b, a) /\ ~JsLessEq(a, b)

\* The loop of getIndexForDataMax from index i, p being the index of the
\* greatest value so far (indices from 0).
RECURSIVE IndexForDataMaxFrom(_, _, _)
IndexForDataMaxFrom(arr, i, p) ==
    IF i >= Len(arr) THEN p
    ELSE IF JsGreater(arr[i + 1].value, arr[p + 1].value)
         THEN IndexForDataMaxFrom(arr, i + 1, i)
         ELSE IndexForDataMaxFrom(arr, i + 1, p)

\* A faulty variant: the last index of the greatest value.
IndexForDataMaxLast(arr) ==
    IF Len(arr) < 1 THEN 0
    ELSE CHOOSE p \in 0..(Len(arr) - 1) :
            /\ \A i \in DOMAIN arr : JsLessEq(arr[i].value, arr[p + 1].value)
            /\ \A i \in DOMAIN arr : i > p + 1 => arr[i].value # arr[p + 1].value

\* Lines 1167-1182.
getIndexForDataMax(arr) ==
    IF Len(arr) < 1 THEN 0 ELSE IndexForDataMaxFrom(arr, 1, 0)

\* Lines 607-620: the label of the longest bar, its width at fontSizeToUse,
\* and the range [0, width - offset - 40] of xScale.
LabelLayout(width, vm, fontSize) ==
    LET indexForDataMax == getIndexForDataMax(vm.dataPoints)
        formattedValue == IF Len(vm.dataPoints) > 0
                          THEN vm.dataPoints[indexForDataMax + 1].formattedValue
                          ELSE ""
        offset == measureSvgTextWidth(fontSize, formattedValue)
    IN  [indexForDataMax |-> indexForDataMax,
         formattedValue  |-> formattedValue,
         offset          |-> offset,
         dataMax         |-> vm.dataMax,
         xRange          |-> FSub(FSub(Int2F(width), offset), Int2F(40))]

\* xScale(value) of scaleLinear().domain([0, dataMax]).range([0, xRange]):
\* None stands for NaN; a domain of one point maps to the middle of the range.
xScale(geo, value) ==
    LET v == ToNumber(value)
        m == ToNumber(geo.dataMax)
    IN  IF ~IsNum(v) \/ ~IsNum(m) THEN None
        ELSE IF m.n = 0 THEN Some(FMul(geo.xRange, Frac(1, 2)))
        ELSE Some(FMul(Frac(v.n, m.n), geo.xRange))

\* Lines 906-922, getTextPositionX(value, wid); None stands for NaN and for
\* the undefined result of a shape that is none of the four.
getTextPositionX(s, geo, value, wid) ==
    LET x == xScale(geo, value) IN
    IF s.barShape.shape = "Bar"
    THEN IF Truthy(x) /\ FLess(wid, Get(x))
         THEN Some(FAdd(Get(x), Int2F(8)))
         ELSE Some(FAdd(wid, Int2F(12)))
    ELSE IF s.barShape.shape \in {"Line", "Lollipop", "Hammer Head"}
    THEN IF s.alignBarLabels.show \/ s.barShape.labelPosition = "Top"
         THEN IF Truthy(x)
              THEN Some(FMul(Frac(101, 100), FAdd(Get(x), Int2F(8))))
              ELSE None
         ELSE Some(FMul(Frac(101, 100), FAdd(wid, Int2F(8))))
    ELSE None

LayoutRecord(m, rows, fit, band, s) ==
    [done |-> TRUE, xScaledMin |-> m, rows |-> rows, calcX |-> fit.calcX,
     height |-> fit.height, grown |-> fit.grown, calcHeight |-> fit.calcHeight,
     outerPadding |-> fit.outerPadding, step |-> band.step,
     bandwidth |-> band.bandwidth,
     fontSize |-> fontSizeToUse(s, band.bandwidth)]

LayoutWith(vm, m, fit, clamp) ==
    LayoutRecord(m, Len(vm.dataPoints), fit,
                 BandScale(Cardinality(BandDomain(vm.dataPoints)), fit.height,
                           fit.outerPadding, clamp),
                 vm.settings)

\* Lines 531-590 of update: the svg height and the band scale.
LayoutOf(opts, vm, clamp) ==
    LET base == LayoutWith(vm, XScaledMinOf(vm.settings),
                           FitRows(opts.viewport.height, Len(vm.dataPoints),
                                   XScaledMinOf(vm.settings)),
                           clamp)
    IN  base @@ LabelLayout(opts.viewport.width, vm, base.fontSize)

\* Lines 594-602: the auto font size is bandwidth / 3; the two range tests
\* read fontParams.show, which throws when the settings are the empty object.
FontSizeThrows(s, bandwidth) ==
    /\ Missing(s, "fontParams")
    /\ \/ FLess(Frac(bandwidth, fontScaleFactor), Frac(85, 10))
       \/ FLess(Int2F(40), Frac(bandwidth, fontScaleFactor))

(***************************************************************************)
(* The rendered rows.  dom[p] is the g.bar element at position p with its  *)
(* bound datum and the fill-opacity style of the group, of its rect.bar    *)
(* and of its rect.overlapBar: "unset" (no style, style removed), "solid"  *)
(* (solidOpacity) or "transparent" (transparentOpacity).                   *)
(***************************************************************************)
NoAttr == [g |-> None, rect |-> None, overlap |-> None]
NewRow(d) ==
    [datum |-> d, g |-> "unset", rect |-> "unset", overlap |-> "unset",
     attr |-> NoAttr, circle |-> FALSE, line |-> FALSE,
     valuesRect |-> FALSE, barValue |-> FALSE,
     textX |-> None, textFontSize |-> None, valuesRectX |-> None,
     barValueX |-> None, width |-> None, tooltipOn |-> {}]

\* isSelectionIdInArray(selectionIds, selectionId)
isSelectionIdInArray(selectionIds, selectionId) == selectionId \in selectionIds

\* The style syncSelectionState leaves on one element of the selection.
SyncedStyle(d, selectionIds) ==
    IF selectionIds = {} THEN "unset"
    ELSE IF isSelectionIdInArray(selectionIds, d.selectionId) THEN "solid"
    ELSE "transparent"

\* syncSelectionState(bars, ids), syncSelectionState(rects, ids) and
\* syncSelectionState(overlapRects, ids), for selections that hold the
\* elements at the given positions.
SyncAll(rows, bars, rects, overlapRects, selectionIds) ==
    [p \in DOMAIN rows |->
        [rows[p] EXCEPT
            !.g       = IF p \in bars
                        THEN SyncedStyle(rows[p].datum, selectionIds) ELSE @,
            !.rect    = IF p \in rects
                        THEN SyncedStyle(rows[p].datum, selectionIds) ELSE @,
            !.overlap = IF p \in overlapRects
                        THEN SyncedStyle(rows[p].datum, selectionIds) ELSE @]]

\* The selection bars.selectAll("rect.bar").data(...) returns: the update
\* selection, which holds the rects that existed before this pass; the rects
\* appended by enter() are in mergeElement only.
UpdateSelection(before, n) == (DOMAIN before) \cap (1..n)

\* barContainer.selectAll("g.bar").data(dataPoints) after the enter().append:
\* every group that has a data point.
BarsSelection(n) == 1..n

\* What is left of a captured selection once the elements beyond position n
\* are removed from the document.
Attached(captured, n) == captured \cap (1..n)

DropRemoved(promises, n) ==
    [q \in DOMAIN promises |->
        [promises[q] EXCEPT !.bars = Attached(promises[q].bars, n),
                            !.rects = Attached(promises[q].rects, n),
                            !.overlapRects = Attached(promises[q].overlapRects, n)]]

\* The promises in flight once a later update pass has completed: their
\* callbacks belong to a superseded pass.
Superseded(promises) ==
    [q \in DOMAIN promises |-> [promises[q] EXCEPT !.superseded = TRUE]]

\* The selections the click handlers closed over; area tells whether the
\* click handler of rect.rect-container was ever registered.
NoHandler == [area |-> FALSE, bars |-> {}, rects |-> {}, overlapRects |-> {}]
NoLayout == [done |-> FALSE]

\* The sizes after construction: no attribute is set and barContainer holds
\* no rect.rect-container.
NoSurface ==
    [divWidth |-> None, divHeight |-> None, svgWidth |-> None,
     svgHeight |-> None, rectContainer |-> None]

\* A faulty variant: the svg always as high as the viewport.
SizedToViewport(sf, viewport, height) ==
    [sf EXCEPT !.divWidth = Some(Int2F(viewport.width)),
               !.divHeight = Some(Int2F(viewport.height + 5)),
               !.svgWidth = Some(Int2F(viewport.width)),
               !.svgHeight = Some(Int2F(viewport.height))]

\* Lines 577-582: the style of the scroll div and the size of the svg.
Sized(sf, viewport, height) ==
    [sf EXCEPT !.divWidth = Some(Int2F(viewport.width)),
               !.divHeight = Some(Int2F(viewport.height + 5)),
               !.svgWidth = Some(Int2F(viewport.width)),
               !.svgHeight = Some(height)]

\* Lines 624-633: the join of rect.rect-container with the data [0].  The
\* first pass appends the rect; width, height and fill are set on the update
\* selection, which holds the rect only from the second pass on.
WithRectContainer(sf, width, height) ==
    [sf EXCEPT !.rectContainer =
        IF Truthy(@)
        THEN <<[width |-> Some(Int2F(width)), height |-> Some(height)]>>
        ELSE <<[width |-> None, height |-> None]>>]

(***************************************************************************)
(* update(options).                                                        *)
(***************************************************************************)
\* The rows after the data join and the enter().append of lines 635-672:
\* all rows go when there is no data point, rows in place get the new datum,
\* new rows are appended.  Rows beyond the data stay until bars.exit().
Joined(rows, dataPoints) ==
    IF Len(dataPoints) = 0 THEN <<>>
    ELSE [p \in 1..Max2(Len(rows), Len(dataPoints)) |->
            IF p > Len(dataPoints) THEN rows[p]
            ELSE IF p \in DOMAIN rows
                 THEN [rows[p] EXCEPT !.datum = dataPoints[p]]
                 ELSE NewRow(dataPoints[p])]

\* Faulty variants of the drawing steps, against which the properties below
\* are tried: heads that are appended but never taken away, and groups that
\* are never taken away when their data point is gone.
HeadsKept(row, s) ==
    [row EXCEPT !.circle = @ \/ s.barShape.shape = "Lollipop",
                !.line = @ \/ s.barShape.shape = "Hammer Head"]

ExitKept(rows, n) == rows

\* Lines 716-756: a circle.head in every group when the shape is Lollipop and
\* a line.head when it is Hammer Head; otherwise the circles, respectively
\* the lines, are removed from every group.
Heads(row, s) ==
    [row EXCEPT !.circle = s.barShape.shape = "Lollipop",
                !.line = s.barShape.shape = "Hammer Head"]

\* Lines 789-839: the pill rect.valuesRect and the text.bar-value are added
\* to every group when showBarLabels.show is set; there is no else branch.
ValueLabels(row, s) ==
    IF s.showBarLabels.show
    THEN [row EXCEPT !.valuesRect = TRUE, !.barValue = TRUE]
    ELSE row

\* Lines 666-714: the fill-opacity attribute of the rect.bar and of the
\* rect.overlapBar, set on the merged selections.
RectAttrs(row, s) ==
    [row EXCEPT !.attr.rect = Some(Frac(s.generalView.opacity, 100)),
                !.attr.overlap = Some(Frac(s.generalView.opacity, 100))]

\* Lines 666-839 for the groups that hold a data point.
Drawn(rows, n, s) ==
    [p \in DOMAIN rows |->
        IF p <= n THEN ValueLabels(Heads(RectAttrs(rows[p], s), s), s)
        ELSE rows[p]]

\* Lines 776-781: the text.bar-text at x = 5 in fontSizeToUse; its each()
\* writes xScale(d.value) to d.width, kept in the field width of the row.
CategoryLabel(row, geo) ==
    [row EXCEPT !.textX = Some(Int2F(5)),
                !.textFontSize = Some(geo.fontSize),
                !.width = xScale(geo, row.datum.value)]

\* Lines 797-834: the x of the rect.valuesRect and of the text.bar-value,
\* from dataMax when alignBarLabels.show and from the row's value otherwise.
ValueLabelX(row, s, geo) ==
    LET x == getTextPositionX(s, geo,
                              IF s.alignBarLabels.show THEN geo.dataMax
                              ELSE row.datum.value,
                              row.datum.currTextWidth)
    IN  IF s.showBarLabels.show
        THEN [row EXCEPT !.valuesRectX = IF Truthy(x)
                                         THEN Some(FSub(Get(x), Int2F(2)))
                                         ELSE None,
                         !.barValueX = x]
        ELSE row

\* Lines 763-839 for the groups that hold a data point.
Labelled(rows, n, s, geo) ==
    [p \in DOMAIN rows |->
        IF p <= n THEN ValueLabelX(CategoryLabel(rows[p], geo), s, geo)
        ELSE rows[p]]

\* Lines 841-844 and addTooltip of the wrapper: nothing when the host's
\* tooltip service is not enabled; otherwise the handlers of the namespace
\* .tooltip are set, replacing those of an earlier pass, on every element of
\* selectAll(".bar"): the g.bar and the rect.bar of every row.
addTooltip(rows, enabled) ==
    IF enabled
    THEN [p \in DOMAIN rows |-> [rows[p] EXCEPT !.tooltipOn = {"g", "rect"}]]
    ELSE rows

\* Lines 903-904, bars.exit().remove(): the groups beyond the data points go.
Exit(rows, n) == SubSeq(rows, 1, n)

\* Lines 635-857 and 903: the joins and the drawing, the three
\* syncSelectionState calls, then bars.exit().remove().
Rendered(before, dataPoints, s, selectionIds, geo, enabled) ==
    LET n == Len(dataPoints)
        joined == addTooltip(Labelled(Drawn(Joined(before, dataPoints), n, s),
                                      n, s, geo),
                             enabled)
        kept == IF n = 0 THEN <<>> ELSE before
        synced == SyncAll(joined, BarsSelection(n), UpdateSelection(kept, n),
                          UpdateSelection(kept, n), selectionIds)
    IN  Exit(synced, n)

Update(opts) ==
    /\ options' = opts
    /\ UNCHANGED <<selection, clampPadding, tooltip>>
    /\ \E t \in {visualTransform(opts)} :
           /\ transform' = t
           /\ IF t.threw
              THEN /\ status' = [ended |-> "threw", line |-> t.line,
                                   events |-> <<"renderingStarted">>]
                   /\ UNCHANGED <<settings, layout, dom, handler, pending,
                                  surface>>
              ELSE \E lay \in {LayoutOf(opts, t.vm, clampPadding)} :
                   LET vm == t.vm
                       n == Len(vm.dataPoints)
                       kept == IF n = 0 THEN <<>> ELSE dom
                   IN  /\ settings' = vm.settings
                       /\ layout' = lay
                       /\ IF FontSizeThrows(vm.settings, lay.bandwidth)
                          THEN /\ status' = [ended |-> "threw", line |-> 597,
                                               events |-> <<"renderingStarted">>]
                               /\ surface' = Sized(surface, opts.viewport, lay.height)
                               /\ UNCHANGED <<dom, handler, pending>>
                          ELSE IF Missing(vm.settings, "barShape")
                          THEN /\ status' = [ended |-> "threw", line |-> 680,
                                               events |-> <<"renderingStarted">>]
                               /\ surface' = WithRectContainer(
                                                Sized(surface, opts.viewport, lay.height),
                                                opts.viewport.width, lay.height)
                               /\ dom' = SubSeq(Joined(dom, vm.dataPoints), 1, n)
                               /\ handler' = [NoHandler EXCEPT !.area = handler.area]
                               /\ pending' = DropRemoved(pending, n)
                          ELSE /\ status' = [ended |-> "finished",
                                               events |-> <<"renderingStarted",
                                                            "renderingFinished">>]
                               /\ surface' = WithRectContainer(
                                                Sized(surface, opts.viewport, lay.height),
                                                opts.viewport.width, lay.height)
                               /\ dom' = Rendered(dom, vm.dataPoints, vm.settings,
                                               selection, lay, tooltip.enabled)
                               /\ handler' = [area |-> TRUE,
                                              bars |-> BarsSelection(n),
                                              rects |-> UpdateSelection(kept, n),
                                              overlapRects |-> UpdateSelection(kept, n)]
                               /\ pending' = Superseded(DropRemoved(pending, n))

(***************************************************************************)
(* The click handler of the rows and the host selection manager.           *)
(***************************************************************************)
\* selectionManager.select(id) without multi-select: the id becomes the only
\* selected one, or nothing is selected when it was the only one.
SelectResult(current, id) == IF current = {id} THEN {} ELSE {id}

\* bars.on("click"): a click on the row at position p calls
\* selectionManager.select(d.selectionId); the promise settles later.
ClickBar(p) ==
    /\ p \in DOMAIN dom
    /\ p \in handler.bars
    /\ Len(pending) < MaxPending
    /\ LET ids == SelectResult(selection, dom[p].datum.selectionId) IN
        /\ selection' = ids
        /\ pending' = Append(pending,
                             [op |-> "select", ids |-> ids,
                              superseded |-> FALSE, bars |-> handler.bars,
                              rects |-> handler.rects,
                              overlapRects |-> handler.overlapRects])
    /\ lastOp' = [op |-> "click", row |-> p]
    /\ UNCHANGED <<options, transform, status, settings, layout, dom, handler,
                   clampPadding, tooltip, surface>>

\* The then-callback of select(): syncSelectionState on the three selections
\* the handler closed over.
SelectCallback ==
    /\ Len(pending) > 0
    /\ Head(pending).op = "select"
    /\ LET c == Head(pending) IN
        /\ dom' = SyncAll(dom, c.bars, c.rects, c.overlapRects, c.ids)
        /\ lastOp' = [op |-> "selectCallback", ids |-> c.ids,
                      superseded |-> c.superseded]
    /\ pending' = Tail(pending)
    /\ UNCHANGED <<options, transform, status, settings, layout, handler,
                   selection, clampPadding, tooltip, surface>>

(***************************************************************************)
(* The tooltip service wrapper.  Time is counted in milliseconds; the clock *)
(* of the model advances by TickMs.  The host's tooltip service is taken to *)
(* be enabled, so addTooltip registers its handlers on every element of     *)
(* class bar: the group g.bar and the rect.bar inside it.                   *)
(***************************************************************************)
DefaultHandleTouchDelay == 1000
TickMs == 500

\* this.handleTouchDelay, as createTooltipServiceWrapper is called with two
\* arguments.
handleTouchDelay == DefaultHandleTouchDelay

\* The wrapper after construction: handleTouchTimeoutId is undefined, the
\* browser holds no timer of it and has handed out no timer id.
NoTooltip ==
    [handleTouchTimeoutId |-> None, timers |-> {}, nextId |-> 1, now |-> 0,
     touchEnd |-> None, visible |-> FALSE, enabled |-> TRUE]

\* clearTimeout(id).
clearTimeout(timers, id) == {t \in timers : t.id # id}

\* A faulty variant of the touch-end handler, against which the properties
\* below are tried: the pending timer is not cancelled.
TouchEndStacking(tt) ==
    [tt EXCEPT !.visible = FALSE,
               !.timers = @ \cup {[id |-> tt.nextId,
                                   due |-> tt.now + handleTouchDelay]},
               !.handleTouchTimeoutId = Some(tt.nextId),
               !.nextId = @ + 1,
               !.touchEnd = Some(tt.now)]

\* One run of the touch-end handler: hide, clearTimeout of the pending timer
\* if there is one, setTimeout for handleTouchDelay.
TouchEndHandler(tt) ==
    [tt EXCEPT !.visible = FALSE,
               !.timers = (IF Truthy(tt.handleTouchTimeoutId)
                           THEN clearTimeout(@, Get(tt.handleTouchTimeoutId))
                           ELSE @)
                          \cup {[id |-> tt.nextId,
                                 due |-> tt.now + handleTouchDelay]},
               !.handleTouchTimeoutId = Some(tt.nextId),
               !.nextId = @ + 1,
               !.touchEnd = Some(tt.now)]

\* A faulty variant: the pending timer of a touch-end is not looked at.
CanDisplayIgnoringTouch(tt, buttons) ==
    IF buttons.k # "undefined" THEN buttons = Num(0) ELSE TRUE

\* canDisplayTooltip(event), for the buttons property of the event.
canDisplayTooltip(tt, buttons) ==
    (IF buttons.k # "undefined" THEN buttons = Num(0) ELSE TRUE)
        /\ tt.handleTouchTimeoutId = None

\* The handlers an event on row p runs: an event on the rect.bar runs the
\* handler of the rect and then, bubbling, that of the group; an event
\* elsewhere in the group runs that of the group only.
HandlerRuns(row, onRect) ==
    (IF onRect /\ "rect" \in row.tooltipOn THEN 1 ELSE 0)
        + (IF "g" \in row.tooltipOn THEN 1 ELSE 0)

RECURSIVE TouchEndRuns(_, _)
TouchEndRuns(tt, runs) ==
    IF runs = 0 THEN tt ELSE TouchEndRuns(TouchEndHandler(tt), runs - 1)

\* A touch ends on row p, on its rect.bar or elsewhere in the group.
TouchEnd(p) ==
    /\ p \in DOMAIN dom
    /\ tooltip.nextId + 1 <= MaxTimers
    /\ \E onRect \in BOOLEAN :
           /\ tooltip' = TouchEndRuns(tooltip, HandlerRuns(dom[p], onRect))
           /\ lastOp' = [op |-> "touchEnd", row |-> p, onRect |-> onRect]
    /\ UNCHANGED <<options, transform, status, settings, layout, dom, handler,
                   selection, pending, clampPadding, surface>>

\* The callback of setTimeout runs for a timer that is due.
TimerFires ==
    /\ \E t \in tooltip.timers :
           /\ t.due <= tooltip.now
           /\ tooltip' = [tooltip EXCEPT !.timers = @ \ {t},
                                         !.handleTouchTimeoutId = None]
           /\ lastOp' = [op |-> "timer", id |-> t.id]
    /\ UNCHANGED <<options, transform, status, settings, layout, dom, handler,
                   selection, pending, clampPadding, surface>>

\* Time passes.
Tick ==
    /\ tooltip.now + TickMs <= MaxTime
    /\ tooltip' = [tooltip EXCEPT !.now = @ + TickMs]
    /\ lastOp' = [op |-> "tick"]
    /\ UNCHANGED <<options, transform, status, settings, layout, dom, handler,
                   selection, pending, clampPadding, surface>>

\* The buttons property of a mouse event.
MouseButtons == {Undefined, Num(0), Num(1)}

\* The mouse comes over row p, or moves on it: every handler the event runs
\* calls show, respectively move, when canDisplayTooltip allows it.  lastOp
\* records the decision and the number of calls.
MouseOver(p) ==
    /\ p \in DOMAIN dom
    /\ \E buttons \in MouseButtons, onRect \in BOOLEAN :
         LET runs == HandlerRuns(dom[p], onRect)
             can == canDisplayTooltip(tooltip, buttons)
         IN  /\ tooltip' = [tooltip EXCEPT !.visible = @ \/ (can /\ runs > 0)]
             /\ lastOp' = [op |-> "mouseover", buttons |-> buttons,
                           shown |-> can, runs |-> runs,
                           calls |-> IF can THEN runs ELSE 0]
    /\ UNCHANGED <<options, transform, status, settings, layout, dom, handler,
                   selection, pending, clampPadding, surface>>

MouseMove(p) ==
    /\ p \in DOMAIN dom
    /\ \E buttons \in MouseButtons, onRect \in BOOLEAN :
         LET runs == HandlerRuns(dom[p], onRect)
             can == canDisplayTooltip(tooltip, buttons)
         IN  lastOp' = [op |-> "mousemove", buttons |-> buttons,
                        shown |-> can, runs |-> runs,
                        calls |-> IF can THEN runs ELSE 0]
    /\ UNCHANGED <<options, transform, status, settings, layout, dom, handler,
                   selection, pending, clampPadding, tooltip, surface>>

\* The mouse leaves row p: every handler the event runs calls hide.
MouseOut(p) ==
    /\ p \in DOMAIN dom
    /\ \E buttons \in MouseButtons, onRect \in BOOLEAN :
         LET runs == HandlerRuns(dom[p], onRect)
         IN  /\ tooltip' = [tooltip EXCEPT !.visible = @ /\ runs = 0]
             /\ lastOp' = [op |-> "mouseout", buttons |-> buttons,
                           runs |-> runs, calls |-> runs]
    /\ UNCHANGED <<options, transform, status, settings, layout, dom, handler,
                   selection, pending, clampPadding, surface>>

\* The host turns its tooltip service on or off: enabled() answers so from
\* the next update on.
TooltipServiceToggled ==
    /\ tooltip' = [tooltip EXCEPT !.enabled = ~@]
    /\ lastOp' = [op |-> "tooltipService", enabled |-> ~tooltip.enabled]
    /\ UNCHANGED <<options, transform, status, settings, layout, dom, handler,
                   selection, pending, clampPadding, surface>>

\* The field barSelection of the class: declared, and assigned nowhere.
barSelection == None

solidOpacity == 1

\* The callback given to registerOnSelectCallback in the constructor: the
\* host has changed the selection to the ids of the given rows and calls
\* syncSelectionState(this.barSelection, getSelectionIds()), which returns
\* at once when its selection is undefined.
OnSelectCallback(keys) ==
    /\ lastOp' = [op |-> "onSelectCallback"]
    /\ selection' = {[key |-> k] : k \in keys}
    /\ dom' = IF ~Truthy(barSelection) THEN dom
              ELSE SyncAll(dom, Get(barSelection), {}, {}, selection')
    /\ UNCHANGED <<options, transform, status, settings, layout, handler,
                   pending, clampPadding, tooltip, surface>>

\* bars.attr("fill-opacity", solidOpacity) and the same on rects and
\* overlapRects, for the selections the area handler closed over.
SolidAttrs(rows, h) ==
    [p \in DOMAIN rows |->
        [rows[p] EXCEPT
            !.attr.g = IF p \in h.bars THEN Some(Int2F(solidOpacity)) ELSE @,
            !.attr.rect = IF p \in h.rects THEN Some(Int2F(solidOpacity)) ELSE @,
            !.attr.overlap = IF p \in h.overlapRects
                             THEN Some(Int2F(solidOpacity)) ELSE @]]

\* selectionManager.hasSelection().
hasSelection == selection # {}

\* area.on("click"): a click on rect.rect-container.  The handler reads
\* this.IBarChartSettings.clearFilters.show, which throws when the last
\* update left the settings empty.
AreaClick ==
    /\ handler.area
    /\ IF Missing(settings, "clearFilters")
       THEN /\ lastOp' = [op |-> "areaClick", threw |-> TRUE, clear |-> FALSE,
                          before |-> selection]
            /\ UNCHANGED <<dom, selection, pending>>
       ELSE /\ lastOp' = [op |-> "areaClick", threw |-> FALSE,
                          clear |-> settings.clearFilters.show /\ hasSelection,
                          before |-> selection]
            /\ IF settings.clearFilters.show /\ hasSelection
               THEN /\ Len(pending) < MaxPending
                    /\ selection' = {}
                    /\ pending' = Append(pending,
                                         [op |-> "clear", ids |-> {},
                                          superseded |-> FALSE,
                                          bars |-> handler.bars,
                                          rects |-> handler.rects,
                                          overlapRects |-> handler.overlapRects])
               ELSE UNCHANGED <<selection, pending>>
            /\ dom' = SolidAttrs(dom, handler)
    /\ UNCHANGED <<options, transform, status, settings, layout, handler,
                   clampPadding, tooltip, surface>>

\* The then-callback of clear(): syncSelectionState with no ids on the three
\* selections the area handler closed over.
ClearCallback ==
    /\ Len(pending) > 0
    /\ Head(pending).op = "clear"
    /\ LET c == Head(pending) IN
        /\ dom' = SyncAll(dom, c.bars, c.rects, c.overlapRects, {})
        /\ lastOp' = [op |-> "clearCallback", superseded |-> c.superseded]
    /\ pending' = Tail(pending)
    /\ UNCHANGED <<options, transform, status, settings, layout, handler,
                   selection, clampPadding, tooltip, surface>>

(***************************************************************************)
(* The visual in its host.                                                 *)
(***************************************************************************)
\* The data set behind the visual: the host's query returns some of its
\* categories in some order, each with its values.
PrimaryOf(c) == IF c = "A" THEN 10 ELSE IF c = "B" THEN 20 ELSE 30
OverlapOf(c) == IF c = "A" THEN 5 ELSE IF c = "B" THEN 25 ELSE 15

PrimaryColumn(cats) == [i \in DOMAIN cats |-> PrimaryOf(cats[i])]
OverlapColumn(cats) == [i \in DOMAIN cats |-> OverlapOf(cats[i])]

\* The update options for a query result: a well-formed data view, or one
\* that lacks a part when malformed names the part.
QueryOptions(malformed, kind, cats, objects, h) ==
    IF malformed # "none"
    THEN Options(MalformedDataViews[malformed], Viewport(400, h))
    ELSE Options(Some(<<WellFormedView(kind, cats, PrimaryColumn(cats),
                                       OverlapColumn(cats), objects)>>),
                 Viewport(400, h))

\* Updates of the running visual: up to MaxBars rows of the categories A and
\* B in a large viewport, or a malformed data view in a small or a large one.
UpdateRows == InjectiveSeqsUpTo({"A", "B"}, MaxBars)
UpdateHeights == {20, 300}
UpdateMalformedKinds == {"noDataViews", "emptyCategories"}

\* The host calls update with the options of a query result; lastOp records
\* the call.
HostUpdate(malformed, kind, cats, objects, h) ==
    /\ lastOp' = [op |-> "update"]
    /\ Update(QueryOptions(malformed, kind, cats, objects, h))

NoOptions == [dataViews |-> None, viewport |-> Viewport(0, 0)]

Init ==
    /\ options = NoOptions
    /\ transform = [threw |-> FALSE, vm |-> EmptyViewModel]
    /\ status = [ended |-> "constructed", events |-> <<>>]
    /\ settings = EmptySettings
    /\ layout = NoLayout
    /\ dom = <<>>
    /\ handler = NoHandler
    /\ selection = {}
    /\ pending = <<>>
    /\ lastOp = [op |-> "constructor"]
    /\ clampPadding \in BOOLEAN
    /\ tooltip = NoTooltip
    /\ surface = NoSurface

UpdateWellFormed ==
    \E kind \in {"plain", "overlap"}, cats \in UpdateRows :
        HostUpdate("none", kind, cats, NoObjects, 300)

UpdateMalformed ==
    \E k \in UpdateMalformedKinds, h \in UpdateHeights :
        HostUpdate(k, "plain", <<>>, NoObjects, h)

Next ==
    \/ UpdateWellFormed
    \/ UpdateMalformed
    \/ \E p \in 1..MaxBars : ClickBar(p)
    \/ SelectCallback

Spec == Init /\ [][Next]_vars

(***************************************************************************)
(* The layout step alone: updates over more rows, viewport heights and     *)
(* bar-height settings.                                                    *)
(***************************************************************************)
LayoutHeights == {20, 90, 100, 300}

LayoutObjects ==
    {NoObjects,
     [barHeight |-> [show |-> FALSE]],
     [barHeight |-> [height |-> 20]],
     [barHeight |-> [height |-> 40]]}

RowNames == <<"A", "B", "C", "D", "E">>
LayoutRows == {SubSeq(RowNames, 1, n) : n \in 0..MaxRows}

LayoutWellFormed ==
    \E cats \in LayoutRows, o \in LayoutObjects, h \in LayoutHeights :
        HostUpdate("none", "plain", cats, o, h)

LayoutMalformed ==
    \E k \in MalformedKinds, h \in UpdateHeights :
        HostUpdate(k, "plain", <<>>, NoObjects, h)

LayoutNext == LayoutWellFormed \/ LayoutMalformed

LayoutSpec == Init /\ [][LayoutNext]_vars

(***************************************************************************)
(* The labels: updates over narrow and wide viewports, short and long      *)
(* category names, equal and unequal values, and the settings that place   *)
(* the value labels.                                                       *)
(***************************************************************************)
LabelWidths == {120, 400}
LabelRows == {<<>>, <<"A", "Long category">>, <<"Long category", "A">>}
LabelValues == {5, 20}

LabelObjects ==
    [default  |-> NoObjects,
     aligned  |-> [alignBarLabels |-> [show |-> TRUE]],
     line     |-> [alignBarLabels |-> [show |-> TRUE],
                   barShape |-> [shape |-> "Line"]],
     bottom   |-> [barShape |-> [shape |-> "Lollipop", labelPosition |-> "Bottom"]],
     fixed    |-> [fontParams |-> [show |-> TRUE]],
     noLabels |-> [showBarLabels |-> [show |-> FALSE]]]

LabelUpdate ==
    \E w \in LabelWidths, cats \in LabelRows, o \in DOMAIN LabelObjects :
        /\ lastOp' = [op |-> "update"]
        /\ \E prim \in [DOMAIN cats -> LabelValues] :
               Update(Options(Some(<<WellFormedView("tooltipOverlap", cats, prim,
                                                    OverlapColumn(cats),
                                                    LabelObjects[o])>>),
                              Viewport(w, 300)))

LabelSpec == Init /\ [][LabelUpdate]_vars

(***************************************************************************)
(* getTooltipData alone, over data points whose tooltip entries hold       *)
(* texts, among them the empty one, and numbers, with and without          *)
(* units.decimalPlaces.                                                    *)
(***************************************************************************)
\* number.toFixed(digits) for a whole number.
RECURSIVE Zeros(_)
Zeros(d) == IF d = 0 THEN "" ELSE "0" \o Zeros(d - 1)

toFixed(n, digits) ==
    IF digits = 0 THEN ToString(n) ELSE ToString(n) \o "." \o Zeros(digits)

\* A faulty variant: every entry value as it is.
TooltipDataUnchanged(value, decimalPlaces) ==
    <<[displayName |-> value.category, value |-> Str(value.formattedValue)]>>
    \o value.tooltip

\* Lines 1131-1154, getTooltipData(value), decimalPlaces being
\* this.IBarChartSettings.units.decimalPlaces.
getTooltipData(value, decimalPlaces) ==
    <<[displayName |-> value.category, value |-> Str(value.formattedValue)]>>
    \o [j \in DOMAIN value.tooltip |->
           LET element == value.tooltip[j] IN
           [displayName |-> element.displayName,
            value |-> IF element.value.k = "string"
                      THEN IF element.value.s = "" THEN Str("0")
                           ELSE element.value
                      ELSE IF decimalPlaces.k \notin {"null", "undefined"}
                      THEN Str(toFixed(element.value.n, decimalPlaces.n))
                      ELSE element.value]]

TooltipValues == {Str(""), Str("12"), Num(12), Num(-3)}
TooltipNames == <<"Detail", "Overlap">>
TooltipDecimalPlaces == {Null, Num(0), Num(2)}

TooltipInputs ==
    {[category |-> c, formattedValue |-> "20",
      tooltip |-> [j \in 1..n |-> [displayName |-> TooltipNames[j],
                                   value |-> v[j]]]] :
        c \in {"A", "Long category"},
        n \in 0..2, v \in [1..2 -> TooltipValues]}

\* The tooltip delegate of line 842 is called with a data point.
GetTooltipData ==
    /\ lastOp.op \in {"constructor", "getTooltipData"}
    /\ \E value \in TooltipInputs, d \in TooltipDecimalPlaces :
           lastOp' = [op |-> "getTooltipData", value |-> value,
                      decimalPlaces |-> d,
                      result |-> getTooltipData(value, d)]
    /\ UNCHANGED <<options, transform, status, settings, layout, dom, handler,
                   selection, pending, clampPadding, tooltip, surface>>

TooltipDataSpec == Init /\ [][GetTooltipData]_vars

(***************************************************************************)
(* visualTransform alone, over data views whose columns differ in length.  *)
(***************************************************************************)
TransformInit ==
    /\ \/ \E k \in MalformedKinds :
            options = Options(MalformedDataViews[k], Viewport(400, 300))
       \/ \E kind \in ViewKinds, cats \in InjectiveSeqsUpTo(CatNames, MaxRows),
             prim \in SeqsUpTo(PrimaryValues, MaxRows),
             over \in SeqsUpTo(OverlapValues, MaxRows) :
            /\ Len(over) \in {0, Len(prim)}
            /\ kind = "plain" => over = <<>>
            /\ options = Options(Some(<<WellFormedView(kind, cats, prim, over,
                                                       NoObjects)>>),
                                 Viewport(400, 300))
    /\ transform = [threw |-> FALSE, vm |-> EmptyViewModel]
    /\ status = [ended |-> "constructed", events |-> <<>>]
    /\ settings = EmptySettings
    /\ layout = NoLayout
    /\ dom = <<>>
    /\ handler = NoHandler
    /\ selection = {}
    /\ pending = <<>>
    /\ lastOp = [op |-> "constructor"]
    /\ clampPadding = FALSE
    /\ tooltip = NoTooltip
    /\ surface = NoSurface

Transform ==
    /\ lastOp.op = "constructor"
    /\ transform' = visualTransform(options)
    /\ lastOp' = [op |-> "visualTransform"]
    /\ UNCHANGED <<options, status, settings, layout, dom, handler, selection,
                   pending, clampPadding, tooltip, surface>>

TransformSpec == TransformInit /\ [][Transform]_vars

(***************************************************************************)
(* enumerateObjectInstances and the updates that follow a change in the    *)
(* format pane.                                                            *)
(***************************************************************************)
NumberRange(min, max) == [numberRange |-> [max |-> max, min |-> min]]

\* The switch of enumerateObjectInstances over options.objectName: the one
\* instance pushed for a known name, [] for any other.
InstancesOf(s, objectName) ==
    IF objectName = "fontParams"
    THEN <<[objectName |-> objectName,
            properties |-> [fontSize |-> s.fontParams.fontSize,
                            show |-> s.fontParams.show]]>>
    ELSE IF objectName = "generalView"
    THEN <<[objectName |-> objectName,
            properties |-> [barsColor |-> s.generalView.barsColor,
                            opacity |-> s.generalView.opacity,
                            overlapColor |-> s.generalView.overlapColor,
                            textColor |-> s.generalView.textColor],
            validValues |-> [barHeight |-> NumberRange(20, 200),
                             minHeight |-> NumberRange(50, 2500),
                             opacity |-> NumberRange(10, 100)]]>>
    ELSE IF objectName = "showBarLabels"
    THEN <<[objectName |-> objectName,
            properties |-> [highlightColor |-> s.showBarLabels.highlightColor,
                            show |-> s.showBarLabels.show,
                            textColor |-> s.showBarLabels.textColor]]>>
    ELSE IF objectName = "alignBarLabels"
    THEN <<[objectName |-> objectName,
            properties |-> [show |-> s.alignBarLabels.show]]>>
    ELSE IF objectName = "barShape"
    THEN <<[objectName |-> objectName,
            properties |-> [headColor |-> s.barShape.headColor,
                            labelPosition |-> s.barShape.labelPosition,
                            shape |-> s.barShape.shape]]>>
    ELSE IF objectName = "barHeight"
    THEN <<[objectName |-> objectName,
            properties |-> [height |-> s.barHeight.height,
                            show |-> s.barHeight.show],
            validValues |-> [height |-> NumberRange(20, 200)]]>>
    ELSE IF objectName = "experimental"
    THEN <<[objectName |-> objectName,
            properties |-> [blendMode |-> s.experimental.blendMode,
                            show |-> s.experimental.show]]>>
    ELSE IF objectName = "clearFilters"
    THEN <<[objectName |-> objectName,
            properties |-> [show |-> s.clearFilters.show]]>>
    ELSE <<>>

\* The names the switch has a case for.
EnumeratedNames ==
    {"fontParams", "generalView", "showBarLabels", "alignBarLabels", "barShape",
     "barHeight", "experimental", "clearFilters"}

\* enumerateObjectInstances(options) on this.IBarChartSettings: reading a
\* property of a group the settings lack throws.
enumerateObjectInstances(s, objectName) ==
    IF objectName \in EnumeratedNames /\ Missing(s, objectName)
    THEN Throw(963)
    ELSE [threw |-> FALSE, instances |-> InstancesOf(s, objectName)]

\* The host asks for the instances of one object of the format pane.
EnumerateObjectInstances(objectName) ==
    /\ lastOp' = [op |-> "enumerateObjectInstances", objectName |-> objectName,
                  result |-> enumerateObjectInstances(settings, objectName)]
    /\ UNCHANGED <<options, transform, status, settings, layout, dom, handler,
                   selection, pending, clampPadding, tooltip, surface>>

\* What the user has set in the format pane, one group at a time.
SettingsObjects ==
    {NoObjects,
     [fontParams |-> [show |-> TRUE]],
     [fontParams |-> [fontSize |-> 5, show |-> TRUE]],
     [fontParams |-> [fontSize |-> 50, show |-> TRUE]],
     [barShape |-> [shape |-> "Line"]],
     [barShape |-> [shape |-> "Lollipop"]],
     [barShape |-> [shape |-> "Hammer Head"]],
     [showBarLabels |-> [show |-> FALSE]],
     [generalView |-> [opacity |-> 50]],
     [clearFilters |-> [show |-> TRUE]]}

SettingsHeights == {20, 300, 1000}
SettingsRows == {<<"A">>, <<"A", "B">>}
SettingsNames == EnumeratedNames \cup {"units"}

SettingsUpdate ==
    \E cats \in SettingsRows, o \in SettingsObjects, h \in SettingsHeights :
        HostUpdate("none", "plain", cats, o, h)

SettingsNext ==
    \/ SettingsUpdate
    \/ \E name \in SettingsNames : EnumerateObjectInstances(name)

SettingsSpec == Init /\ [][SettingsNext]_vars

(***************************************************************************)
(* The selection alone: clicks on rows and on the background, selections   *)
(* the host changes by itself, with the clearFilters setting on and off.   *)
(***************************************************************************)
SelectionRows == {<<"A">>, <<"A", "B">>}
SelectionObjects == {NoObjects, [clearFilters |-> [show |-> TRUE]]}

SelectionUpdate ==
    \E cats \in SelectionRows, o \in SelectionObjects :
        HostUpdate("none", "plain", cats, o, 300)

SelectionMalformed ==
    HostUpdate("noDataViews", "plain", <<>>, NoObjects, 20)

SelectionNext ==
    \/ SelectionUpdate
    \/ SelectionMalformed
    \/ \E p \in 1..MaxBars : ClickBar(p)
    \/ SelectCallback
    \/ AreaClick
    \/ ClearCallback
    \/ \E keys \in SUBSET {"A"} : OnSelectCallback(keys)

SelectionSpec == Init /\ [][SelectionNext]_vars

(***************************************************************************)
(* The tooltips alone: touches that end, timers that fire, the mouse.      *)
(***************************************************************************)
TooltipUpdate ==
    \E cats \in SelectionRows : HostUpdate("none", "plain", cats, NoObjects, 300)

TooltipNext ==
    \/ TooltipUpdate
    \/ \E p \in 1..MaxBars : TouchEnd(p)
    \/ TimerFires
    \/ Tick
    \/ \E p \in 1..MaxBars : MouseOver(p)
    \/ \E p \in 1..MaxBars : MouseMove(p)
    \/ \E p \in 1..MaxBars : MouseOut(p)
    \/ TooltipServiceToggled

TooltipSpec == Init /\ [][TooltipNext]_vars

(***************************************************************************)
(* Properties.  The data view of the latest call, read back from options.  *)
(***************************************************************************)
\* The data view has a categorical shape with a first category column that
\* carries source metadata, and a first value column.
ValidDataView(opts) ==
    /\ Truthy(opts.dataViews)
    /\ Len(Get(opts.dataViews)) > 0
    /\ Truthy(Get(opts.dataViews)[1].categorical)
    /\ Truthy(Get(Get(opts.dataViews)[1].categorical).categories)
    /\ Len(Get(Get(Get(opts.dataViews)[1].categorical).categories)) > 0
    /\ Truthy(Get(Get(Get(opts.dataViews)[1].categorical).categories)[1].source)
    /\ Truthy(Get(Get(opts.dataViews)[1].categorical).values)
    /\ Len(Get(Get(Get(opts.dataViews)[1].categorical).values)) > 0

\* The data view names its categories and there are none: the categories
\* list is empty, or its first column has no rows.
ZeroCategories(opts) ==
    /\ Truthy(opts.dataViews)
    /\ Len(Get(opts.dataViews)) > 0
    /\ Truthy(Get(opts.dataViews)[1].categorical)
    /\ Truthy(Get(Get(opts.dataViews)[1].categorical).categories)
    /\ \/ Len(Get(Get(Get(opts.dataViews)[1].categorical).categories)) = 0
       \/ Len(Get(Get(Get(opts.dataViews)[1].categorical).categories)[1].values) = 0

InputCategory == Get(Get(Get(options.dataViews)[1].categorical).categories)[1].values
InputValueColumns == Get(Get(Get(options.dataViews)[1].categorical).values)
InputPrimary == InputValueColumns[1]

\* The values of the value column in the overlapValues role, <<>> without one.
InputOverlap ==
    LET hits == {c \in DOMAIN InputValueColumns :
                    "overlapValues" \in InputValueColumns[c].source.roles}
    IN  IF hits = {} THEN <<>> ELSE InputValueColumns[CHOOSE c \in hits : TRUE].values

SeqMax(s) == SetMax({s[i] : i \in DOMAIN s})

\* visualTransform has returned a view model for a valid data view.
Built ==
    /\ lastOp.op = "visualTransform"
    /\ ValidDataView(options)
    /\ ~transform.threw

\* An element shows at full opacity unless its fill-opacity style is the
\* transparent one.
IsSolid(style) == style # "transparent"

\* C1: after the layout step of an update with at least one row, the slot of
\* a row (the step of the band scale) is at least the floor xScaledMin, or
\* the svg height was grown to calcHeight.
C1_SlotAtLeastFloorOrGrown ==
    (layout.done /\ layout.rows >= 1 /\ lastOp.op = "update" /\ status.ended = "finished")
        => (layout.step >= layout.xScaledMin \/ layout.grown)

\* C2: after a select() callback with result S, every rendered group, bar
\* rect and overlap rect is solid iff its data point's selection id is in S
\* or S is empty, and transparent otherwise.
C2_OpacityFollowsSelection ==
    lastOp.op = "selectCallback" =>
        \A p \in DOMAIN dom :
            LET on == lastOp.ids = {} \/ dom[p].datum.selectionId \in lastOp.ids
            IN  /\ IsSolid(dom[p].g) <=> on
                /\ IsSolid(dom[p].rect) <=> on
                /\ IsSolid(dom[p].overlap) <=> on

\* C3: an update whose data view fails the validation gate (visualTransform
\* returned the empty view model) completes without throwing and leaves no
\* bar element.
C3_MalformedUpdateRendersNothing ==
    (lastOp.op = "update" /\ transform = Return(EmptyViewModel))
        => (status.ended = "finished" /\ Len(dom) = 0)

\* C4: for a data view that lacks a categorical shape, a first category
\* column with source metadata or a first value column, visualTransform
\* returns the empty view model and does not throw.
C4_EmptyViewModelWhenPartMissing ==
    (lastOp.op = "visualTransform" /\ ~ValidDataView(options))
        => transform = Return(EmptyViewModel)

\* C5: for a data view with zero categories, visualTransform returns no data
\* points, dataMax 0 and the settings {}, and update does not throw.
C5_ZeroCategoriesGiveEmptyViewModel ==
    (lastOp.op = "update" /\ ZeroCategories(options))
        => /\ ~transform.threw
           /\ transform.vm.dataPoints = <<>>
           /\ transform.vm.dataMax = Num(0)
           /\ transform.vm.settings = EmptySettings
           /\ status.ended = "finished"

\* C6: for a valid data view, dataMax is the greater of the primary column's
\* maxLocal and the greatest overlap value (maxLocal alone when there is no
\* overlap value); primary 10,20,30 with overlap 5,25,15 gives 30, primary
\* 10,20,10 with overlap 5,25,15 gives 25.
C6_DataMaxIsGreaterOfBoth ==
    Built =>
        /\ IF Len(InputOverlap) > 0
           THEN /\ IsNum(InputPrimary.maxLocal)
                /\ transform.vm.dataMax =
                       Num(Max2(InputPrimary.maxLocal.n, SeqMax(InputOverlap)))
           ELSE transform.vm.dataMax = InputPrimary.maxLocal
        /\ (InputPrimary.values = <<10, 20, 30>> /\ InputOverlap = <<5, 25, 15>>)
               => transform.vm.dataMax = Num(30)
        /\ (InputPrimary.values = <<10, 20, 10>> /\ InputOverlap = <<5, 25, 15>>)
               => transform.vm.dataMax = Num(25)

C6_OverlapMaxDominates ==
    /\ Built
    /\ InputPrimary.values = <<10, 20, 10>>
    /\ InputOverlap = <<5, 25, 15>>
    /\ transform.vm.dataMax = Num(25)

\* C7: dataMax of a built view model is at least the primary value of every
\* data point and at least the overlap value of every data point.
C7_DataMaxBoundsEveryValue ==
    Built =>
        \A i \in DOMAIN transform.vm.dataPoints :
            LET d == transform.vm.dataPoints[i]
            IN  /\ IsNum(d.value) =>
                     /\ IsNum(transform.vm.dataMax)
                     /\ transform.vm.dataMax.n >= d.value.n
                /\ IsNum(d.overlapValue) =>
                     /\ IsNum(transform.vm.dataMax)
                     /\ transform.vm.dataMax.n >= d.overlapValue.n

C7_OverlapValueAbovePrimaryMax ==
    /\ Built
    /\ \E i \in DOMAIN transform.vm.dataPoints :
          /\ IsNum(transform.vm.dataPoints[i].overlapValue)
          /\ transform.vm.dataPoints[i].overlapValue.n > InputPrimary.maxLocal.n
          /\ transform.vm.dataMax.n = transform.vm.dataPoints[i].overlapValue.n

\* C8: without an overlap column, or with an empty overlap series, dataMax
\* is neither -Infinity nor NaN: it is the primary column's maxLocal.
C8_NoOverlapGivesMaxLocal ==
    (Built /\ Len(InputOverlap) = 0) =>
        /\ transform.vm.dataMax # NegInfinity
        /\ transform.vm.dataMax # NaN
        /\ transform.vm.dataMax = InputPrimary.maxLocal

C8_EmptyOverlapSeries ==
    /\ Built
    /\ \E c \in DOMAIN InputValueColumns :
          "overlapValues" \in InputValueColumns[c].source.roles
    /\ Len(InputOverlap) = 0
    /\ transform.vm.dataMax = Num(30)

\* C9: the number of data points of a built view model is the greater of the
\* number of category values and the number of primary values.
C9_OnePointPerRow ==
    Built =>
        Len(transform.vm.dataPoints) = Max2(Len(InputCategory), Len(InputPrimary.values))

C9_MoreValuesThanCategories ==
    /\ Built
    /\ Len(InputCategory) = 1
    /\ Len(InputPrimary.values) = 3
    /\ Len(transform.vm.dataPoints) = 3

\* C10: data point i carries category value i, primary value i and the
\* selection id of category row i, and the rendered rows keep that order:
\* row i is bound to data point i.
C10_PointsInCategoryRowOrder ==
    (status.ended = "finished" /\ ValidDataView(options)) =>
        /\ Len(transform.vm.dataPoints) = Len(InputCategory)
        /\ Len(dom) = Len(InputCategory)
        /\ \A i \in DOMAIN InputCategory :
              /\ transform.vm.dataPoints[i].category = InputCategory[i]
              /\ transform.vm.dataPoints[i].value = Num(InputPrimary.values[i])
              /\ transform.vm.dataPoints[i].selectionId = [key |-> InputCategory[i]]
              /\ dom[i].datum = transform.vm.dataPoints[i]

C10_UnsortedRowsRendered ==
    /\ status.ended = "finished"
    /\ ValidDataView(options)
    /\ InputCategory = <<"B", "A">>
    /\ dom[1].datum.category = "B"
    /\ dom[2].datum.category = "A"
    /\ lastOp.op = "selectCallback"

\* C11: after an update with a valid data view, for each object name of the
\* format pane enumerateObjectInstances returns one instance whose properties
\* are the sub-object of the settings of that update.
C11_InstanceIsSettingsSubObject ==
    (lastOp.op = "enumerateObjectInstances" /\ lastOp.objectName \in EnumeratedNames
        /\ ValidDataView(options) /\ status.ended = "finished")
        => /\ ~lastOp.result.threw
           /\ Len(lastOp.result.instances) = 1
           /\ lastOp.result.instances[1].objectName = lastOp.objectName
           /\ lastOp.result.instances[1].properties = settings[lastOp.objectName]

\* C12: the font size update uses is bandwidth / 3 kept within [8.5, 40]
\* when fontParams.show is false, and fontParams.fontSize as it is when
\* fontParams.show is true.
C12_FontSizeCappedOnlyWhenAuto ==
    (lastOp.op = "update" /\ status.ended = "finished") =>
        IF settings.fontParams.show
        THEN layout.fontSize = Int2F(settings.fontParams.fontSize)
        ELSE /\ layout.fontSize =
                    FMax(Frac(85, 10), FMin(Int2F(40), Frac(layout.bandwidth, 3)))
             /\ FLessEq(Frac(85, 10), layout.fontSize)
             /\ FLessEq(layout.fontSize, Int2F(40))

C12_FixedSizeAboveCap ==
    /\ lastOp.op = "update"
    /\ status.ended = "finished"
    /\ settings.fontParams.show
    /\ layout.fontSize = Int2F(50)

\* C13: after the host has changed the selection and invoked the callback
\* registered with registerOnSelectCallback, the group of every rendered row
\* is solid iff its data point is among getSelectionIds() or nothing is
\* selected, and transparent otherwise.
C13_HostCallbackSyncsRows ==
    lastOp.op = "onSelectCallback" =>
        \A p \in DOMAIN dom :
            IsSolid(dom[p].g)
                <=> (selection = {} \/ dom[p].datum.selectionId \in selection)

\* A click on the background called clear() exactly when clearFilters.show
\* was set and the host held a selection.
ClearCalledWhenAsked ==
    lastOp.op = "areaClick" =>
        (lastOp.clear <=> (/\ ~Missing(settings, "clearFilters")
                           /\ settings.clearFilters.show
                           /\ lastOp.before # {}))

\* A click on the background that did not call clear() left the host's
\* selection as it was; one that did emptied it.
SelectionKeptUnlessCleared ==
    lastOp.op = "areaClick" =>
        selection = (IF lastOp.clear THEN {} ELSE lastOp.before)

\* Once a clear() has settled no element of a rendered row is dimmed.
AllSolidOnceCleared ==
    lastOp.op = "clearCallback" =>
        \A p \in DOMAIN dom :
            IsSolid(dom[p].g) /\ IsSolid(dom[p].rect) /\ IsSolid(dom[p].overlap)

\* C14: a click on the background calls clear() exactly when
\* clearFilters.show is set and hasSelection() holds; once that clear has
\* settled every rendered row is at full opacity; in every other case clear()
\* is not called and the host's selection stays as it was.
C14_BackgroundClickClears ==
    ClearCalledWhenAsked /\ SelectionKeptUnlessCleared /\ AllSolidOnceCleared

\* C15: when the promise of a select() made in one update pass settles after
\* a later pass has completed, every row now rendered, the rows created by
\* the later pass included, has the opacity that the settled ids call for.
C15_LateCallbackSyncsLatestRows ==
    (lastOp.op = "selectCallback" /\ lastOp.superseded) =>
        \A p \in DOMAIN dom :
            LET on == lastOp.ids = {} \/ dom[p].datum.selectionId \in lastOp.ids
            IN  /\ IsSolid(dom[p].g) <=> on
                /\ IsSolid(dom[p].rect) <=> on
                /\ IsSolid(dom[p].overlap) <=> on

\* C16: after every update that ran to its end, the group, the bar rect and
\* the overlap rect of every rendered row, the rows created by that update
\* included, are solid iff the row's data point is among the host's
\* selection ids or nothing is selected, and transparent otherwise.
C16_UpdateSyncsEveryElement ==
    (lastOp.op = "update" /\ status.ended = "finished") =>
        \A p \in DOMAIN dom :
            LET on == selection = {} \/ dom[p].datum.selectionId \in selection
            IN  /\ IsSolid(dom[p].g) <=> on
                /\ IsSolid(dom[p].rect) <=> on
                /\ IsSolid(dom[p].overlap) <=> on

\* C17: at every moment at most one touch-suppression timer is pending, it
\* is the timer of the most recent touch-end and handleTouchTimeoutId is set
\* exactly while it is pending; so a mouse event with no button pressed is
\* refused a tooltip until handleTouchDelay has passed since the most recent
\* touch-end, and is allowed one again once that timer has fired.
C17_OneTouchTimer ==
    /\ Cardinality(tooltip.timers) <= 1
    /\ Truthy(tooltip.handleTouchTimeoutId) <=> (tooltip.timers # {})
    /\ \A t \in tooltip.timers :
           /\ tooltip.handleTouchTimeoutId = Some(t.id)
           /\ Truthy(tooltip.touchEnd)
           /\ t.due = Get(tooltip.touchEnd) + handleTouchDelay
    /\ (/\ Truthy(tooltip.touchEnd)
        /\ tooltip.now < Get(tooltip.touchEnd) + handleTouchDelay)
           => ~canDisplayTooltip(tooltip, Num(0))
    /\ lastOp.op = "timer" => canDisplayTooltip(tooltip, Num(0))
    /\ lastOp.op = "mouseover" =>
           (lastOp.shown <=> (/\ lastOp.buttons \in {Undefined, Num(0)}
                              /\ tooltip.timers = {}))

\* The timer of a touch-end that cancelled an earlier timer has fired.
C17_SecondTimerFired ==
    /\ lastOp.op = "timer"
    /\ lastOp.id >= 2
    /\ tooltip.timers = {}

\* C18: while the latest update is one that ran to its end, every rendered
\* row has a circle head iff barShape.shape is Lollipop and a line head iff
\* it is Hammer Head, so for Bar and Line no row has a head, whatever the
\* shapes of the updates before.
C18_HeadMatchesShape ==
    status.ended = "finished" =>
        \A p \in DOMAIN dom :
            /\ dom[p].circle <=> settings.barShape.shape = "Lollipop"
            /\ dom[p].line <=> settings.barShape.shape = "Hammer Head"

\* Two rows are rendered with the heads of a hammer.
C18_HammerHeadsRendered ==
    /\ status.ended = "finished"
    /\ settings.barShape.shape = "Hammer Head"
    /\ Len(dom) = 2
    /\ dom[2].line /\ ~dom[2].circle

\* C19: after every update that ran to its end there are as many rendered
\* groups as the view model of that update has data points, group i is bound
\* to data point i, and nothing is left of the rows beyond them.
C19_OneGroupPerDataPoint ==
    (lastOp.op = "update" /\ status.ended = "finished") =>
        /\ ~transform.threw
        /\ DOMAIN dom = DOMAIN transform.vm.dataPoints
        /\ \A i \in DOMAIN dom : dom[i].datum = transform.vm.dataPoints[i]

\* An update has rendered one row while the host still holds the selection
\* of a row that is no longer there.
C19_SelectedRowGone ==
    /\ lastOp.op = "update"
    /\ status.ended = "finished"
    /\ Len(dom) = 1
    /\ selection # {}
    /\ dom[1].datum.selectionId \notin selection

\* C20: while the latest update is one that ran to its end, a rendered row
\* has a value-label text and its pill rect iff showBarLabels.show was set in
\* that update; with the labels off no row has either.
C20_LabelsFollowSetting ==
    status.ended = "finished" =>
        \A p \in DOMAIN dom :
            /\ dom[p].barValue <=> settings.showBarLabels.show
            /\ dom[p].valuesRect <=> settings.showBarLabels.show

\* xScaledMax of the latest update: a third of the viewport height.
XScaledMaxOf(opts) == FDiv(Int2F(opts.viewport.height), Int2F(maxHeightScale))

\* C22: after an update that ran to its end with calcX above xScaledMax, the
\* slot of a row (the step of the band scale) equals xScaledMax when that is
\* at least xScaledMin, and xScaledMin otherwise.
C22_SlotClampedToMax ==
    (/\ lastOp.op = "update"
     /\ status.ended = "finished"
     /\ FLess(XScaledMaxOf(options), layout.calcX))
        => Int2F(layout.step) =
              (IF FLessEq(Int2F(layout.xScaledMin), XScaledMaxOf(options))
               THEN XScaledMaxOf(options) ELSE Int2F(layout.xScaledMin))

(***************************************************************************)
(* The value labels.                                                       *)
(***************************************************************************)
\* The rows of the last update carry their value labels.
LabelsDrawn ==
    /\ lastOp.op = "update"
    /\ status.ended = "finished"
    /\ settings.showBarLabels.show

\* C21: when alignBarLabels.show is set, the value label and the pill of
\* every row are at one common x, whatever the row's value and the width of
\* its category label.
C21_AlignedLabelsShareX ==
    (LabelsDrawn /\ settings.alignBarLabels.show)
        => \A p, q \in DOMAIN dom :
              /\ dom[p].barValueX = dom[q].barValueX
              /\ dom[p].valuesRectX = dom[q].valuesRectX

\* The width of the category label of a row as it is rendered: the category
\* in the font size of the text.bar-text.
RenderedTextWidth(row) ==
    measureSvgTextWidth(Get(row.textFontSize), row.datum.category)

\* C23: after an update the data point of every row holds the rendered width
\* of its category label, and for the shape Bar the x of the value label is
\* strictly greater than 5 plus that width, the right end of the category
\* label.
C23_ValueLabelRightOfCategoryLabel ==
    (LabelsDrawn /\ settings.barShape.shape = "Bar")
        => \A p \in DOMAIN dom :
              /\ dom[p].width = Some(RenderedTextWidth(dom[p]))
              /\ Truthy(dom[p].barValueX)
              /\ FLess(FAdd(Int2F(5), RenderedTextWidth(dom[p])),
                       Get(dom[p].barValueX))

\* C25: getIndexForDataMax returns 0 for no data point and otherwise the
\* smallest index whose value is at least every other value; update reads
\* the formatted value at that index only when there is a data point, and
\* takes the empty text otherwise.
C25_IndexOfFirstGreatest ==
    (lastOp.op = "update" /\ status.ended = "finished")
        => LET arr == transform.vm.dataPoints
               p == layout.indexForDataMax
               Greatest(q) == \A i \in DOMAIN arr :
                                  arr[q + 1].value.n >= arr[i].value.n
           IN  IF Len(arr) = 0
               THEN p = 0 /\ layout.formattedValue = ""
               ELSE /\ p \in 0..(Len(arr) - 1)
                    /\ Greatest(p)
                    /\ \A q \in 0..(p - 1) : ~Greatest(q)
                    /\ layout.formattedValue = arr[p + 1].formattedValue

\* An update whose two rows hold the same, greatest value.
C25_TwoRowsTied ==
    /\ lastOp.op = "update"
    /\ status.ended = "finished"
    /\ Len(transform.vm.dataPoints) = 2
    /\ transform.vm.dataPoints[1].value = transform.vm.dataPoints[2].value
    /\ layout.indexForDataMax = 0

\* C24: getTooltipData returns the entry of the category and its formatted
\* value, then one entry per tooltip measure in order: a text is passed
\* through and the empty text becomes "0", a number is printed with
\* toFixed(decimalPlaces) when units.decimalPlaces is set, and is kept as it
\* is otherwise.
C24_TooltipEntries ==
    lastOp.op = "getTooltipData"
        => LET value == lastOp.value
               d == lastOp.decimalPlaces
               result == lastOp.result
           IN  /\ Len(result) = 1 + Len(value.tooltip)
               /\ result[1] = [displayName |-> value.category,
                               value |-> Str(value.formattedValue)]
               /\ \A j \in DOMAIN value.tooltip :
                    LET e == value.tooltip[j]
                        r == result[j + 1]
                    IN  /\ r.displayName = e.displayName
                        /\ (e.value.k = "string" /\ e.value.s # "")
                              => r.value = e.value
                        /\ (e.value.k = "string" /\ e.value.s = "")
                              => r.value = Str("0")
                        /\ (e.value.k = "number" /\ d = Null)
                              => r.value = e.value
                        /\ (e.value.k = "number" /\ d # Null)
                              => r.value = Str(toFixed(e.value.n, d.n))

\* A data point with an empty text and a number, two decimal places asked.
C24_EmptyTextAndNumber ==
    /\ lastOp.op = "getTooltipData"
    /\ lastOp.decimalPlaces = Num(2)
    /\ Len(lastOp.value.tooltip) = 2
    /\ lastOp.value.tooltip[1].value = Str("")
    /\ lastOp.value.tooltip[2].value = Num(12)
    /\ lastOp.result[2].value = Str("0")
    /\ lastOp.result[3].value = Str("12.00")

\* C26: the height update sets on the svg is never less than the viewport
\* height; it differs from it only when calcX <= xScaledMax, calcX <
\* xScaledMin and calcHeight > viewport height, and is then calcHeight =
\* (N + 0.05) * xScaledMin; the scroll div keeps the viewport height plus 5.
C26_SvgHeight ==
    (lastOp.op = "update" /\ ~transform.threw)
        => LET H == Int2F(options.viewport.height)
               N == Len(transform.vm.dataPoints)
               m == Int2F(layout.xScaledMin)
               calcX == FDiv(H, Frac(20 * N + 17, 20))
               calcHeight == FMul(Frac(20 * N + 1, 20), m)
               grows == /\ FLessEq(calcX, XScaledMaxOf(options))
                        /\ FLess(calcX, m)
                        /\ FLess(H, calcHeight)
               svgHeight == Get(surface.svgHeight)
           IN  /\ FLessEq(H, svgHeight)
               /\ svgHeight # H => grows
               /\ grows => svgHeight = calcHeight
               /\ surface.divHeight = Some(Int2F(options.viewport.height + 5))

\* Three rows at the floor of 40 need 122 px in a viewport of 90.
C26_SvgGrown ==
    /\ lastOp.op = "update"
    /\ status.ended = "finished"
    /\ options.viewport.height = 90
    /\ Len(transform.vm.dataPoints) = 3
    /\ surface.svgHeight = Some(Int2F(122))
    /\ surface.divHeight = Some(Int2F(95))

\* C27: every update reports its outcome: the renderingStarted of an update
\* call is followed, before the call ends, by exactly one renderingFinished
\* or renderingFailed.
C27_EveryUpdateReportsOutcome ==
    lastOp.op = "update"
        => /\ Len(status.events) = 2
           /\ status.events[1] = "renderingStarted"
           /\ status.events[2] \in {"renderingFinished", "renderingFailed"}

\* C28: after every finished update, the first one included, there is
\* exactly one rect.rect-container and its width and height are those the
\* update set on the svg.
C28_RectContainerCoversSvg ==
    (lastOp.op = "update" /\ status.ended = "finished")
        => /\ Len(surface.rectContainer) = 1
           /\ surface.rectContainer[1].width = surface.svgWidth
           /\ surface.rectContainer[1].height = surface.svgHeight

C30_MouseEventsGuarded ==
    /\ lastOp.op \in {"mouseover", "mousemove"}
          => (lastOp.calls > 0
                 => /\ lastOp.buttons \in {Undefined, Num(0)}
                    /\ tooltip.timers = {})
    /\ (lastOp.op = "mouseout" /\ lastOp.runs > 0) => lastOp.calls > 0

\* The mouse comes over a row with no button pressed while the timer of a
\* touch-end is pending: no show call.
C30_MouseOverSuppressed ==
    /\ lastOp.op = "mouseover"
    /\ lastOp.buttons = Num(0)
    /\ lastOp.runs > 0
    /\ tooltip.timers # {}
    /\ lastOp.calls = 0

====
